---- MODULE Spec2Model ----
(***************************************************************************)
(* Model of the HMM model selectors (my_model_selectors.py) and of the     *)
(* recognizer (my_recognizer.py).                                          *)
(*                                                                         *)
(* The training/scoring capability (hmmlearn's GaussianHMM.fit / .score)   *)
(* is external: every call either raises or returns a log-likelihood, and  *)
(* the model draws that outcome nondeterministically at the call.          *)
(*                                                                         *)
(* Numbers.  Selector log-likelihoods and ln(N) are fixed-point values in  *)
(* hundredths; criterion values are exact rationals [num, den] (den > 0).  *)
(* Recognizer log-likelihoods are in units of 10^9, so that the start      *)
(* value of the running maximum, -10 ** 10, is representable.              *)
(***************************************************************************)
EXTENDS Integers, Sequences, FiniteSets, TLC

\* ------------------------------------------------------------------ bounds
\* largest value drawn for min_n_components, max_n_components, n_constant
OrderLimit == 3
\* largest number of training sequences of the class (len(self.lengths))
MaxSeq == 5
\* number of class models handed to recognize()
NumWords == 2
\* number of test instances handed to recognize()
NumTests == 2

\* ------------------------------------------------------------- value sets
\* log-likelihoods the scoring capability may return to a selector (1/100)
LogLVals == {-110, -55, 0}
\* per-fold log-likelihoods the scoring capability may return to SelectorCV
FoldLVals == {-2, -1}
\* log-likelihoods the scoring capability may return to recognize() (10^9)
ScoreVals == {-11, -1, 0}

\* ---------------------------------------------------------------- values
None == [kind |-> "None"]
GaussianHMM(k) == [kind |-> "GaussianHMM", n_components |-> k]
Rat(a, b) == [num |-> a, den |-> b]
RatLess(x, y) == x.num * y.den < y.num * x.den
RatEq(x, y) == x.num * y.den = y.num * x.den

\* Python's ordering of two-element lists [value, n]: lexicographic
ListLess(x, y) == RatLess(x[1], y[1]) \/ (RatEq(x[1], y[1]) /\ x[2] < y[2])

\* Python's min(list): the first item no later item is smaller than
RECURSIVE PyMinFrom(_, _, _)
PyMinFrom(s, i, cur) ==
  IF i > Len(s) THEN cur
  ELSE PyMinFrom(s, i + 1, IF ListLess(s[i], cur) THEN s[i] ELSE cur)
PyMin(s) == PyMinFrom(s, 2, s[1])

\* Python's max(list): the first item no later item is greater than
RECURSIVE PyMaxFrom(_, _, _)
PyMaxFrom(s, i, cur) ==
  IF i > Len(s) THEN cur
  ELSE PyMaxFrom(s, i + 1, IF ListLess(cur, s[i]) THEN s[i] ELSE cur)
PyMax(s) == PyMaxFrom(s, 2, s[1])

\* np.log(N) in hundredths
NpLog100(N) ==
  CASE N = 1 -> 0 [] N = 2 -> 69 [] N = 3 -> 110 [] N = 4 -> 139
    [] N = 5 -> 161 [] N = 6 -> 179 [] N = 7 -> 195 [] OTHER -> 208

\* BIC = -2*logL + n * np.log(len(self.lengths))
BICValue(logL, k, N) == Rat(-2 * logL + k * NpLog100(N), 1)

RECURSIVE SeqSum(_)
SeqSum(s) == IF s = <<>> THEN 0 ELSE Head(s) + SeqSum(Tail(s))
\* np.mean(logL_cv)
NpMean(s) == Rat(SeqSum(s), Len(s))

\* n_constant=3 in ModelSelector.__init__
NConstantDefault == 3

SweepRangeOneMore(lo, hi) == lo .. hi + 1
\* range(self.min_n_components, self.max_n_components + 1)
SweepRange(lo, hi) == lo .. hi

\* KFold(n_splits = min(len(self.lengths), 4))
NSplits(N) == IF N < 4 THEN N ELSE 4
\* KFold.__init__ raises ValueError unless n_splits >= 2
KFoldRaises(k) == k <= 1

VARIABLES
  prog,                 \* "select" or "recognize": which entry point runs
  strategy,             \* the ModelSelector subclass
  min_n_components, max_n_components, n_constant,
  nseq,                 \* len(self.lengths) = len(self.sequences)
  pc,                   \* position inside select()
  n,                    \* loop variable of the sweep
  fold,                 \* 1-based index of the next fold of split()
  logL_cv, BIC_n_components, logL_n_components,
  best_n,               \* 0 until chosen
  result,               \* what select() returned
  fit_orders,           \* orders GaussianHMM(...).fit was called with
  ok_orders,            \* sweep orders with at least one score
  bad_orders,           \* sweep orders with at least one failure
  any_fit_ok,           \* some fit call returned a model
  models,               \* models.items() in iteration order: <<word, model>>
  test_keys,            \* the keys of test_set.get_all_Xlengths() in iteration order
  rpc,                  \* position inside recognize()
  ti,                   \* 1-based position of the outer loop in test_keys
  wi,                   \* 1-based position of the inner loop in models
  max_logL, word_dict, best_guess, probabilities, guesses,
  calls                 \* the model.score calls made so far, with their outcomes

selvars == <<strategy, min_n_components, max_n_components, n_constant, nseq, pc,
             n, fold, logL_cv, BIC_n_components, logL_n_components, best_n,
             result, fit_orders, ok_orders, bad_orders, any_fit_ok>>

recvars == <<models, test_keys, rpc, ti, wi, max_logL, word_dict, best_guess,
             probabilities, guesses, calls>>

vars == <<prog, selvars, recvars>>

Strategies == {"SelectorConstant", "SelectorBIC", "SelectorDIC", "SelectorCV"}

\* ModelSelector.__init__ and the locals of select()
SelInit ==
  /\ prog = "select"
  /\ strategy \in Strategies
  /\ min_n_components \in 1 .. OrderLimit
  /\ max_n_components \in 1 .. OrderLimit
  /\ n_constant \in (IF strategy = "SelectorConstant" THEN 1 .. OrderLimit
                                                         ELSE {NConstantDefault})
  /\ nseq \in 1 .. MaxSeq
  /\ pc = "start"
  /\ n = 0 /\ fold = 0
  /\ logL_cv = <<>> /\ BIC_n_components = <<>> /\ logL_n_components = <<>>
  /\ best_n = 0
  /\ result = None
  /\ fit_orders = {} /\ ok_orders = {} /\ bad_orders = {}
  /\ any_fit_ok = FALSE
  /\ models = <<>> /\ test_keys = <<>> /\ rpc = "idle" /\ ti = 0 /\ wi = 0
  /\ max_logL = 0 /\ word_dict = <<>> /\ best_guess = ""
  /\ probabilities = <<>> /\ guesses = <<>> /\ calls = <<>>

\* what no step of select() writes: its inputs, and the recognizer's state
inputs == <<prog, strategy, min_n_components, max_n_components, n_constant, nseq,
            recvars>>

\* SelectorConstant.select: base_model(n_constant) returns the model
ConstantFits ==
  /\ prog = "select" /\ strategy = "SelectorConstant" /\ pc = "start"
  /\ fit_orders' = fit_orders \cup {n_constant}
  /\ any_fit_ok' = TRUE
  /\ best_n' = n_constant
  /\ result' = GaussianHMM(n_constant)
  /\ pc' = "done"
  /\ UNCHANGED <<inputs, n, fold, logL_cv, BIC_n_components, logL_n_components,
                 ok_orders, bad_orders>>

\* SelectorConstant.select: the fit raises, base_model's except returns None
ConstantFitFails ==
  /\ prog = "select" /\ strategy = "SelectorConstant" /\ pc = "start"
  /\ fit_orders' = fit_orders \cup {n_constant}
  /\ best_n' = n_constant
  /\ result' = None
  /\ pc' = "done"
  /\ UNCHANGED <<inputs, n, fold, logL_cv, BIC_n_components, logL_n_components,
                 ok_orders, bad_orders, any_fit_ok>>

\* SelectorDIC.select: raise NotImplementedError
DICSelect ==
  /\ prog = "select" /\ strategy = "SelectorDIC" /\ pc = "start"
  /\ pc' = "raised"
  /\ UNCHANGED <<inputs, n, fold, logL_cv, BIC_n_components, logL_n_components,
                 best_n, result, fit_orders, ok_orders, bad_orders, any_fit_ok>>

\* the for statement over SweepRange: the position after the body ran for k
AfterOrder(k) ==
  IF k + 1 \in SweepRange(min_n_components, max_n_components)
  THEN /\ pc' = "sweep" /\ n' = k + 1
  ELSE /\ pc' = "pick" /\ n' = k + 1

\* the for statement over SweepRange: its first iteration, if there is one
EnterSweep ==
  IF min_n_components \in SweepRange(min_n_components, max_n_components)
  THEN pc' = "sweep"
  ELSE pc' = "pick"

\* except: continue, in the sweep of SelectorBIC
ContinueBreaks(k) == pc' = "pick" /\ n' = k + 1
ContinueSweep(k) == AfterOrder(k)

\* SelectorBIC.select up to the for statement
BICStart ==
  /\ prog = "select" /\ strategy = "SelectorBIC" /\ pc = "start"
  /\ BIC_n_components' = <<>>
  /\ n' = min_n_components
  /\ EnterSweep
  /\ UNCHANGED <<inputs, fold, logL_cv, logL_n_components, best_n, result,
                 fit_orders, ok_orders, bad_orders, any_fit_ok>>

\* loop body: GaussianHMM(n).fit raises; except: continue
BICFitFails ==
  /\ prog = "select" /\ strategy = "SelectorBIC" /\ pc = "sweep"
  /\ fit_orders' = fit_orders \cup {n}
  /\ bad_orders' = bad_orders \cup {n}
  /\ ContinueSweep(n)
  /\ UNCHANGED <<inputs, fold, logL_cv, BIC_n_components, logL_n_components,
                 best_n, result, ok_orders, any_fit_ok>>

\* loop body: the fit returns, model.score raises; except: continue
BICScoreFails ==
  /\ prog = "select" /\ strategy = "SelectorBIC" /\ pc = "sweep"
  /\ fit_orders' = fit_orders \cup {n}
  /\ bad_orders' = bad_orders \cup {n}
  /\ any_fit_ok' = TRUE
  /\ ContinueSweep(n)
  /\ UNCHANGED <<inputs, fold, logL_cv, BIC_n_components, logL_n_components,
                 best_n, result, ok_orders>>

\* loop body: fit and score return; BIC_n_components.append([BIC, n])
BICScores ==
  /\ prog = "select" /\ strategy = "SelectorBIC" /\ pc = "sweep"
  /\ \E logL \in LogLVals :
       BIC_n_components' = Append(BIC_n_components, <<BICValue(logL, n, nseq), n>>)
  /\ fit_orders' = fit_orders \cup {n}
  /\ ok_orders' = ok_orders \cup {n}
  /\ any_fit_ok' = TRUE
  /\ AfterOrder(n)
  /\ UNCHANGED <<inputs, fold, logL_cv, logL_n_components, best_n, result,
                 bad_orders>>

\* the first item with the least BIC value, whatever its order
RECURSIVE FirstLeastFrom(_, _, _)
FirstLeastFrom(s, i, cur) ==
  IF i > Len(s) THEN cur
  ELSE FirstLeastFrom(s, i + 1, IF RatLess(s[i][1], cur[1]) THEN s[i] ELSE cur)
BICBestByValueOnly(s) == FirstLeastFrom(s, 2, s[1])[2]
\* best_n = min(BIC_n_components)[1]
BICBest(s) == PyMin(s)[2]

\* min([]) raises ValueError; except: return None
BICPickEmpty ==
  /\ prog = "select" /\ strategy = "SelectorBIC" /\ pc = "pick"
  /\ BIC_n_components = <<>>
  /\ result' = None
  /\ pc' = "done"
  /\ UNCHANGED <<inputs, n, fold, logL_cv, BIC_n_components, logL_n_components,
                 best_n, fit_orders, ok_orders, bad_orders, any_fit_ok>>

\* best_n chosen, the refit on (self.X, self.lengths) returns the model
BICRefits ==
  /\ prog = "select" /\ strategy = "SelectorBIC" /\ pc = "pick"
  /\ BIC_n_components # <<>>
  /\ best_n' = BICBest(BIC_n_components)
  /\ fit_orders' = fit_orders \cup {best_n'}
  /\ any_fit_ok' = TRUE
  /\ result' = GaussianHMM(best_n')
  /\ pc' = "done"
  /\ UNCHANGED <<inputs, n, fold, logL_cv, BIC_n_components, logL_n_components,
                 ok_orders, bad_orders>>

\* best_n chosen, the refit raises; except: return None
BICRefitFails ==
  /\ prog = "select" /\ strategy = "SelectorBIC" /\ pc = "pick"
  /\ BIC_n_components # <<>>
  /\ best_n' = BICBest(BIC_n_components)
  /\ fit_orders' = fit_orders \cup {best_n'}
  /\ result' = None
  /\ pc' = "done"
  /\ UNCHANGED <<inputs, n, fold, logL_cv, BIC_n_components, logL_n_components,
                 ok_orders, bad_orders, any_fit_ok>>

\* SelectorCV.select up to the for statement; KFold(...) raises outside any try
CVStart ==
  /\ prog = "select" /\ strategy = "SelectorCV" /\ pc = "start"
  /\ IF KFoldRaises(NSplits(nseq))
     THEN /\ pc' = "raised"
          /\ UNCHANGED <<n, fold, logL_n_components>>
     ELSE /\ logL_n_components' = <<>>
          /\ n' = min_n_components
          /\ fold' = 1
          /\ EnterSweep
  /\ UNCHANGED <<inputs, logL_cv, BIC_n_components, best_n, result, fit_orders,
                 ok_orders, bad_orders, any_fit_ok>>

\* the inner for statement over split_method.split(word_sequences), given the
\* fold scores cv collected for order n after the body ran for the current fold;
\* after the last fold: if logL_cv: logL_n_components.append([np.mean(logL_cv), i])
AfterFold(cv) ==
  IF fold < NSplits(nseq)
  THEN /\ fold' = fold + 1
       /\ logL_cv' = cv
       /\ UNCHANGED <<pc, n, logL_n_components>>
  ELSE /\ fold' = 1
       /\ logL_cv' = <<>>
       /\ logL_n_components' =
            IF cv # <<>> THEN Append(logL_n_components, <<NpMean(cv), n>>)
            ELSE logL_n_components
       /\ AfterOrder(n)

\* fold body: GaussianHMM(i).fit(X_train, lengths_train) raises; except: continue
CVFitFails ==
  /\ prog = "select" /\ strategy = "SelectorCV" /\ pc = "sweep"
  /\ fit_orders' = fit_orders \cup {n}
  /\ bad_orders' = bad_orders \cup {n}
  /\ AfterFold(logL_cv)
  /\ UNCHANGED <<inputs, BIC_n_components, best_n, result, ok_orders, any_fit_ok>>

\* fold body: the fit returns, model.score(X_test, lengths_test) raises
CVScoreFails ==
  /\ prog = "select" /\ strategy = "SelectorCV" /\ pc = "sweep"
  /\ fit_orders' = fit_orders \cup {n}
  /\ bad_orders' = bad_orders \cup {n}
  /\ any_fit_ok' = TRUE
  /\ AfterFold(logL_cv)
  /\ UNCHANGED <<inputs, BIC_n_components, best_n, result, ok_orders>>

\* fold body: fit and score return; logL_cv.append(logL)
CVScores ==
  /\ prog = "select" /\ strategy = "SelectorCV" /\ pc = "sweep"
  /\ fit_orders' = fit_orders \cup {n}
  /\ ok_orders' = ok_orders \cup {n}
  /\ any_fit_ok' = TRUE
  /\ \E logL \in FoldLVals : AfterFold(Append(logL_cv, logL))
  /\ UNCHANGED <<inputs, BIC_n_components, best_n, result, bad_orders>>

\* the first item with the greatest mean, whatever its order
RECURSIVE FirstGreatestFrom(_, _, _)
FirstGreatestFrom(s, i, cur) ==
  IF i > Len(s) THEN cur
  ELSE FirstGreatestFrom(s, i + 1, IF RatLess(cur[1], s[i][1]) THEN s[i] ELSE cur)
CVBestByValueOnly(s) == FirstGreatestFrom(s, 2, s[1])[2]
\* best_n = max(logL_n_components)[1]
CVBest(s) == PyMax(s)[2]

\* max([]) raises ValueError; except: return None
CVPickEmpty ==
  /\ prog = "select" /\ strategy = "SelectorCV" /\ pc = "pick"
  /\ logL_n_components = <<>>
  /\ result' = None
  /\ pc' = "done"
  /\ UNCHANGED <<inputs, n, fold, logL_cv, BIC_n_components, logL_n_components,
                 best_n, fit_orders, ok_orders, bad_orders, any_fit_ok>>

\* best_n chosen, the refit on (self.X, self.lengths) returns the model
CVRefits ==
  /\ prog = "select" /\ strategy = "SelectorCV" /\ pc = "pick"
  /\ logL_n_components # <<>>
  /\ best_n' = CVBest(logL_n_components)
  /\ fit_orders' = fit_orders \cup {best_n'}
  /\ any_fit_ok' = TRUE
  /\ result' = GaussianHMM(best_n')
  /\ pc' = "done"
  /\ UNCHANGED <<inputs, n, fold, logL_cv, BIC_n_components, logL_n_components,
                 ok_orders, bad_orders>>

\* best_n chosen, the refit raises; except: return None
CVRefitFails ==
  /\ prog = "select" /\ strategy = "SelectorCV" /\ pc = "pick"
  /\ logL_n_components # <<>>
  /\ best_n' = CVBest(logL_n_components)
  /\ fit_orders' = fit_orders \cup {best_n'}
  /\ result' = None
  /\ pc' = "done"
  /\ UNCHANGED <<inputs, n, fold, logL_cv, BIC_n_components, logL_n_components,
                 ok_orders, bad_orders, any_fit_ok>>

\* ------------------------------------------------------------- recognize
Float(v) == [kind |-> "float", v |-> v]
\* d[k] = v on a dict
DictSet(d, k, v) == [x \in DOMAIN d \cup {k} |-> IF x = k THEN v ELSE d[x]]
EmptyDict == [x \in {} |-> None]

WordNames == <<"A", "B", "C", "D">>
\* models.items(): every word once, in the dict's insertion order; the orders
\* drawn are the rotations of WordNames
ItemOrders ==
  {[i \in 1 .. NumWords |-> WordNames[((i + r - 1) % NumWords) + 1]] :
     r \in 0 .. NumWords - 1}
\* the test set's keys, in the order the dict was built: 0 .. L-1
KeyOrders == {[i \in 1 .. L |-> i - 1] : L \in 0 .. NumTests}

\* max_logL = -10 ** (10), in units of 10^9
MaxLogLInit == -10

\* the arguments of recognize() and its first two assignments
RecInit ==
  /\ prog = "recognize"
  /\ strategy = "none"
  /\ min_n_components = 0 /\ max_n_components = 0 /\ n_constant = 0 /\ nseq = 0
  /\ pc = "idle"
  /\ n = 0 /\ fold = 0
  /\ logL_cv = <<>> /\ BIC_n_components = <<>> /\ logL_n_components = <<>>
  /\ best_n = 0
  /\ result = None
  /\ fit_orders = {} /\ ok_orders = {} /\ bad_orders = {}
  /\ any_fit_ok = FALSE
  /\ \E ws \in ItemOrders :
       \E ms \in [1 .. NumWords -> {None, GaussianHMM(NConstantDefault)}] :
         models = [i \in 1 .. NumWords |-> <<ws[i], ms[i]>>]
  /\ test_keys \in KeyOrders
  /\ rpc = "start"
  /\ ti = 0 /\ wi = 0
  /\ max_logL = 0 /\ word_dict = EmptyDict /\ best_guess = ""
  /\ probabilities = <<>> /\ guesses = <<>> /\ calls = <<>>

Init == SelInit \/ RecInit

\* if max_logL < LogLvalue
Improves(cur, v) == cur < v

\* the try body after a score: word_dict[word] = LogLvalue
OnScore(d, word, v) == DictSet(d, word, Float(v))

OnScoreErrorPass(d, word) == d
\* except: word_dict[word] = None
OnScoreError(d, word) == DictSet(d, word, None)

InsertGuessFirst(gs, g) == <<g>> \o gs
\* guesses.append(best_guess)
AppendGuess(gs, g) == Append(gs, g)

\* the outer for statement: the position before test instance number k
OuterAt(k) ==
  /\ ti' = k
  /\ rpc' = IF k <= Len(test_keys) THEN "instance" ELSE "done"

\* the inner for statement: the position before model number k
InnerAt(k) ==
  /\ wi' = k
  /\ rpc' = IF k <= Len(models) THEN "score" ELSE "append"

\* probabilities = []; guesses = []; test_set_dict = ...; the outer for begins
RecStart ==
  /\ prog = "recognize" /\ rpc = "start"
  /\ probabilities' = <<>>
  /\ guesses' = <<>>
  /\ OuterAt(1)
  /\ UNCHANGED <<prog, selvars, models, test_keys, wi, max_logL, word_dict,
                 best_guess, calls>>

\* outer loop body up to the inner for statement
BeginInstance ==
  /\ prog = "recognize" /\ rpc = "instance"
  /\ max_logL' = MaxLogLInit
  /\ word_dict' = EmptyDict
  /\ best_guess' = ""
  /\ InnerAt(1)
  /\ UNCHANGED <<prog, selvars, models, test_keys, ti, probabilities, guesses,
                 calls>>

\* inner loop body: model.score(X, lengths) returns LogLvalue
ScoreReturns ==
  /\ prog = "recognize" /\ rpc = "score"
  /\ models[wi][2] # None
  /\ \E v \in ScoreVals :
       /\ calls' = Append(calls, <<test_keys[ti], models[wi][1], Float(v)>>)
       /\ word_dict' = OnScore(word_dict, models[wi][1], v)
       /\ IF Improves(max_logL, v)
          THEN /\ max_logL' = v
               /\ best_guess' = models[wi][1]
          ELSE UNCHANGED <<max_logL, best_guess>>
  /\ InnerAt(wi + 1)
  /\ UNCHANGED <<prog, selvars, models, test_keys, ti, probabilities, guesses>>

\* inner loop body: model.score raises (always, when the model is None)
ScoreRaises ==
  /\ prog = "recognize" /\ rpc = "score"
  /\ calls' = Append(calls, <<test_keys[ti], models[wi][1], None>>)
  /\ word_dict' = OnScoreError(word_dict, models[wi][1])
  /\ InnerAt(wi + 1)
  /\ UNCHANGED <<prog, selvars, models, test_keys, ti, max_logL, best_guess,
                 probabilities, guesses>>

\* guesses.append(best_guess); probabilities.append(word_dict); next instance
EndInstance ==
  /\ prog = "recognize" /\ rpc = "append"
  /\ guesses' = AppendGuess(guesses, best_guess)
  /\ probabilities' = Append(probabilities, word_dict)
  /\ OuterAt(ti + 1)
  /\ UNCHANGED <<prog, selvars, models, test_keys, wi, max_logL, word_dict,
                 best_guess, calls>>

Next ==
  \/ ConstantFits \/ ConstantFitFails
  \/ BICStart \/ BICFitFails \/ BICScoreFails \/ BICScores
  \/ BICPickEmpty \/ BICRefits \/ BICRefitFails
  \/ DICSelect
  \/ CVStart \/ CVFitFails \/ CVScoreFails \/ CVScores
  \/ CVPickEmpty \/ CVRefits \/ CVRefitFails
  \/ RecStart \/ BeginInstance \/ ScoreReturns \/ ScoreRaises \/ EndInstance

Spec == Init /\ [][Next]_vars

\* ================================================================ claims
Returned == prog = "select" /\ pc = "done"
Raised == prog = "select" /\ pc = "raised"
SearchRange == min_n_components .. max_n_components
Items(s) == {s[i] : i \in DOMAIN s}
OrdersOf(s) == {s[i][2] : i \in DOMAIN s}
\* every reordering of a list
Reorderings(s) ==
  LET P == {f \in [DOMAIN s -> DOMAIN s] : \A i, j \in DOMAIN s : i # j => f[i] # f[j]}
  IN {[i \in DOMAIN s |-> s[f[i]]] : f \in P}
Least(S) == CHOOSE x \in S : \A y \in S : x <= y
Greatest(S) == CHOOSE x \in S : \A y \in S : y <= x

\* C1: whenever select() ends without any fit having succeeded, it has returned
\* None and has not raised, for each of the four strategies.
C1_AllFitsFailReturnsNone ==
  (prog = "select" /\ pc \in {"done", "raised"} /\ ~any_fit_ok)
    => (pc = "done" /\ result = None)

\* C2: SelectorCV iterates min(number of sequences, 4) folds per order, and with
\* fewer than 2 sequences select() returns None instead of raising.
C2_CVFoldCountAndDegenerate ==
  (prog = "select" /\ strategy = "SelectorCV") =>
    LET k == IF nseq <= 4 THEN nseq ELSE 4 IN
      /\ pc = "sweep" => (fold \in 1 .. k /\ Len(logL_cv) < k)
      /\ \A i \in DOMAIN logL_n_components : logL_n_components[i][1].den <= k
      /\ ~Raised
      /\ (nseq < 2 /\ pc = "done") => result = None

\* the orders of logL_n_components whose mean no other mean exceeds
CVMaximal ==
  {e[2] : e \in {x \in Items(logL_n_components) :
                   \A y \in Items(logL_n_components) : ~RatLess(x[1], y[1])}}

\* C3 as stated: SelectorCV picks the order with the greatest mean among the
\* orders that scored, the smallest such order on a tie, and refits that order.
C3_CVTieSmallestOrder ==
  (Returned /\ strategy = "SelectorCV" /\ logL_n_components # <<>>) =>
    /\ OrdersOf(logL_n_components) = ok_orders
    /\ best_n = Least(CVMaximal)
    /\ best_n \in fit_orders
    /\ result \in {None, GaussianHMM(best_n)}

\* C3 amended: SelectorCV picks the order with the greatest mean among the
\* orders that scored, the largest such order on a tie, and refits that order
\* (None is returned when the refit fails).
C3_CVTieLargestOrder ==
  (Returned /\ strategy = "SelectorCV" /\ logL_n_components # <<>>) =>
    /\ OrdersOf(logL_n_components) = ok_orders
    /\ best_n = Greatest(CVMaximal)
    /\ best_n \in fit_orders
    /\ result \in {None, GaussianHMM(best_n)}

C3_Witness ==
  /\ Returned /\ strategy = "SelectorCV"
  /\ Cardinality(CVMaximal) >= 2
  /\ Cardinality(OrdersOf(logL_n_components)) > Cardinality(CVMaximal)
  /\ result = GaussianHMM(Greatest(CVMaximal))
  /\ \E i, j \in DOMAIN logL_n_components :
       /\ logL_n_components[i][1].den # logL_n_components[j][1].den
       /\ {logL_n_components[i][2], logL_n_components[j][2]} \subseteq CVMaximal

\* the orders of BIC_n_components whose BIC value no other value is below
BICMinimal ==
  {e[2] : e \in {x \in Items(BIC_n_components) :
                   \A y \in Items(BIC_n_components) : ~RatLess(y[1], x[1])}}

\* C4: SelectorBIC picks the order with the least BIC among the orders that
\* scored, the smallest such order on a tie, and the pick is the same for every
\* reordering of the scored (BIC, n) pairs.
C4_BICMinSmallestOrderAnyOrder ==
  (Returned /\ strategy = "SelectorBIC" /\ BIC_n_components # <<>>) =>
    /\ OrdersOf(BIC_n_components) = ok_orders
    /\ \A i \in DOMAIN BIC_n_components :
         \E logL \in LogLVals :
           BIC_n_components[i][1].num =
             -2 * logL + BIC_n_components[i][2] * NpLog100(nseq)
    /\ best_n = Least(BICMinimal)
    /\ \A r \in Reorderings(BIC_n_components) : BICBest(r) = best_n
    /\ result \in {None, GaussianHMM(best_n)}

C4_Witness ==
  /\ Returned /\ strategy = "SelectorBIC"
  /\ Cardinality(BICMinimal) >= 2
  /\ Cardinality(OrdersOf(BIC_n_components)) > Cardinality(BICMinimal)
  /\ nseq > 1
  /\ result = GaussianHMM(Least(BICMinimal))

\* C5: in the BIC and CV sweeps a failure never ends the search: the orders
\* before the current one have all been attempted, at the end every order of the
\* range has been, a failed candidate or fold adds no score, and the scored
\* candidates are exactly the ones the pick is made from.
C5_FailureNeverAbortsSweep ==
  (prog = "select" /\ strategy \in {"SelectorBIC", "SelectorCV"}) =>
    /\ pc = "sweep" =>
         /\ n \in SearchRange
         /\ min_n_components .. n - 1 \subseteq fit_orders
         /\ ok_orders \cup bad_orders \subseteq min_n_components .. n
    /\ pc \in {"pick", "done"} =>
         /\ SearchRange \subseteq fit_orders
         /\ ok_orders \cup bad_orders = SearchRange
    /\ strategy = "SelectorBIC" =>
         /\ OrdersOf(BIC_n_components) = ok_orders
         /\ ok_orders \cap bad_orders = {}
    /\ strategy = "SelectorCV" =>
         /\ OrdersOf(logL_n_components) = ok_orders \ (IF pc = "sweep" THEN {n} ELSE {})
         /\ pc = "sweep" =>
              /\ (n \in bad_orders <=> Len(logL_cv) < fold - 1)
              /\ (n \in ok_orders <=> Len(logL_cv) > 0)
         /\ \A i \in DOMAIN logL_n_components :
              LET e == logL_n_components[i] IN
                e[2] \in bad_orders <=> e[1].den < NSplits(nseq)

C5_Witness ==
  /\ Returned /\ strategy = "SelectorBIC"
  /\ \E b \in bad_orders : \E o \in ok_orders : b < o /\ result = GaussianHMM(o)
  /\ \E b \in bad_orders : \E o \in ok_orders : o < b

C5_WitnessCV ==
  /\ Returned /\ strategy = "SelectorCV"
  /\ \E b \in bad_orders \ ok_orders : \E o \in ok_orders \cap bad_orders :
       b < o /\ result = GaussianHMM(o)

\* C6: SelectorBIC, SelectorDIC and SelectorCV fit no order outside
\* [min_n_components, max_n_components], and a returned model has its order in
\* that range.
C6_OrdersWithinRange ==
  (prog = "select" /\ strategy \in {"SelectorBIC", "SelectorDIC", "SelectorCV"}) =>
    /\ fit_orders \subseteq SearchRange
    /\ pc = "sweep" => n \in SearchRange
    /\ (Returned /\ result # None) => result.n_components \in SearchRange

C6_Witness ==
  /\ Returned /\ strategy \in {"SelectorBIC", "SelectorCV"}
  /\ result # None
  /\ result.n_components = max_n_components
  /\ min_n_components < max_n_components
  /\ fit_orders = SearchRange

ModelWords == {models[i][1] : i \in DOMAIN models}
\* the words of a score map that hold a log-likelihood
Scorable(d) == {w \in DOMAIN d : d[w] # None}
\* the scorable words of a score map that no scorable word outscores
TopWords(d) == {w \in Scorable(d) : \A x \in Scorable(d) : d[x].v <= d[w].v}
\* the position of a word in models.items()
PositionOf(w) == CHOOSE i \in DOMAIN models : models[i][1] = w
\* the outcomes model.score gave for the test instance with this key, by word
ScoresFor(key) ==
  LET cs == {x \in Items(calls) : x[1] = key}
  IN [w \in {c[2] : c \in cs} |-> (CHOOSE c \in cs : c[2] = w)[3]]
\* the label the running maximum of recognize() leaves after the models from
\* position k on, given the maximum and the label so far
RECURSIVE GuessOver(_, _, _, _)
GuessOver(d, k, cur, g) ==
  IF k > Len(models) THEN g
  ELSE LET w == models[k][1] IN
         IF d[w] # None /\ cur < d[w].v
         THEN GuessOver(d, k + 1, d[w].v, w)
         ELSE GuessOver(d, k + 1, cur, g)

\* C7: for every test instance some class scored, the guess is a class with the
\* greatest score among the scorable ones, whatever the scores are; the guess
\* is the empty label only when no class scored.
C7_GuessIsArgMax ==
  \A i \in DOMAIN guesses :
    /\ Scorable(probabilities[i]) # {} => guesses[i] \in TopWords(probabilities[i])
    /\ guesses[i] = "" => Scorable(probabilities[i]) = {}

\* C8: when several classes share the greatest score of a test instance, the
\* guess is the one of them iterated first.
C8_TieFirstIterated ==
  \A i \in DOMAIN guesses :
    Cardinality(TopWords(probabilities[i])) >= 2 =>
      /\ guesses[i] \in TopWords(probabilities[i])
      /\ \A w \in TopWords(probabilities[i]) : PositionOf(guesses[i]) <= PositionOf(w)

\* C9: a score that raises (always, for a None model) is recorded as None under
\* its class, is never the guess, and the remaining classes are still scored:
\* every score map has every class of models as a key.
C9_FailureRecordedAndSkipped ==
  /\ \A i \in DOMAIN probabilities :
       /\ DOMAIN probabilities[i] = ModelWords
       /\ \A k \in DOMAIN models :
            models[k][2] = None => probabilities[i][models[k][1]] = None
       /\ LET raised == {c[2] : c \in {x \in Items(calls) : x[1] = test_keys[i] /\ x[3] = None}}
          IN \A w \in ModelWords : probabilities[i][w] = None <=> w \in raised
       /\ guesses[i] # "" => guesses[i] \in Scorable(probabilities[i])
  /\ rpc = "score" => DOMAIN word_dict = {models[k][1] : k \in 1 .. wi - 1}
  /\ rpc = "append" => DOMAIN word_dict = ModelWords
  /\ (prog = "recognize" /\ rpc = "done") =>
       Len(calls) = Len(test_keys) * Len(models)

C9_Witness ==
  /\ prog = "recognize" /\ rpc = "done"
  /\ \E i \in DOMAIN probabilities :
       \E j, k \in DOMAIN models :
         /\ j < k
         /\ models[j][2] = None
         /\ probabilities[i][models[j][1]] = None
         /\ probabilities[i][models[k][1]] # None
         /\ guesses[i] = models[k][1]
  /\ \E i \in DOMAIN probabilities :
       \E k \in DOMAIN models :
         models[k][2] # None /\ probabilities[i][models[k][1]] = None

\* C10: recognize() returns two lists of equal length with one entry per test
\* instance; entry i of each comes from the i-th test instance: the score map
\* holds the outcomes of scoring that instance, the guess is the label the
\* running maximum gives on them.
C10_ListsAlignedWithTestSet ==
  /\ Len(probabilities) = Len(guesses)
  /\ Len(probabilities) <= Len(test_keys)
  /\ (prog = "recognize" /\ rpc = "done") => Len(guesses) = Len(test_keys)
  /\ \A i \in DOMAIN probabilities :
       LET d == ScoresFor(test_keys[i]) IN
         /\ probabilities[i] = d
         /\ guesses[i] = GuessOver(d, 1, MaxLogLInit, "")

C10_Witness ==
  /\ prog = "recognize" /\ rpc = "done"
  /\ Len(guesses) = NumTests
  /\ guesses[1] # guesses[NumTests]
  /\ probabilities[1] # probabilities[NumTests]
  /\ \E w \in ModelWords : probabilities[1][w] = None /\ probabilities[NumTests][w] # None
====
